---- MODULE Spec2Model ----
(***************************************************************************)
(* Model of streamlit_app.py: the dataset loader with its per-country      *)
(* memoisation, the synthetic fallback dataset, the curve extraction, the  *)
(* comparison chart builder, the global value range and the comparison     *)
(* tab of main.                                                            *)
(*                                                                         *)
(* Representation.  A Python str is a sequence of one-character strings.   *)
(* A timestamp is the integer yyyymmdd (quarter granularity needs no time  *)
(* of day), so that comparing timestamps is comparing integers.  A float   *)
(* is a fixed-point integer: thousandths after rounding, ten-thousandths   *)
(* in a raw spreadsheet cell; NaN, the missing marker, is a float outside  *)
(* the range of the values.  A DataFrame is                                *)
(* [columns |-> <<name, ...>>, rows |-> <<row, ...>>] with row[j] the cell *)
(* of column j; NoTable stands for "no DataFrame".                         *)
(***************************************************************************)
EXTENDS Integers, Sequences, FiniteSets, TLC

VARIABLES
    cache,                   \* st.cache_data store of load_data: country_code -> table
    reads,                   \* number of pd.read_excel calls per country_code
    country_code,            \* argument of the last load_data call
    source,                  \* what the last executed load_data body found at file_path
    outcome,                 \* how the last load_data call ended
    messages,                \* st.error / st.info elements of the last load_data call
    df,                      \* the table in use
    op,                      \* the operation that acted last
    curves_data,             \* result of prepare_curve_data
    selected_quarter_labels, \* value of the multiselect widget
    selected_dates,          \* dates handed to create_comparison_chart
    fig,                     \* traces of the comparison figure
    error,                   \* exception that ended the last operation
    y_range,                 \* result of get_global_y_range
    filtered_df,             \* rows exported by download_selected_data_as_csv
    date,                    \* argument of the last format_quarter call
    label                    \* result of the last format_quarter call

vars == <<cache, reads, country_code, source, outcome, messages, df, op,
          curves_data, selected_quarter_labels, selected_dates, fig, error,
          y_range, filtered_df, date, label>>

loadVars == <<cache, reads, country_code, source, outcome, messages>>
chartVars == <<curves_data, selected_quarter_labels, selected_dates, fig,
               error, y_range, filtered_df>>
quarterVars == <<date, label>>

None == "None"

NaN == -1000000

(* A cell of a time column whose text is no date; every date is above it. *)
NotADate == 0

NoTable == [columns |-> <<>>, rows |-> <<>>]

(* go.Figure with its traces; NoFigure stands for "no figure returned" *)
Figure(traces, yaxis) == [returned |-> TRUE, data |-> traces, yaxis |-> yaxis]

NoFigure == [returned |-> FALSE, data |-> <<>>, yaxis |-> <<>>]

-----------------------------------------------------------------------------
(* Python str and int helpers *)

Digits == <<"0", "1", "2", "3", "4", "5", "6", "7", "8", "9">>

DigitValue(c) == (CHOOSE i \in 1..10 : Digits[i] = c) - 1

RECURSIVE StrOfNat(_)
StrOfNat(n) == IF n < 10 THEN <<Digits[n + 1]>>
               ELSE StrOfNat(n \div 10) \o <<Digits[(n % 10) + 1]>>

RECURSIVE IntOfStr(_)
IntOfStr(s) == IF Len(s) = 1 THEN DigitValue(s[1])
               ELSE 10 * IntOfStr(SubSeq(s, 1, Len(s) - 1)) + DigitValue(s[Len(s)])

StartsWith(s, p) == Len(s) >= Len(p) /\ SubSeq(s, 1, Len(p)) = p

RemoveSpaces(s) == SelectSeq(s, LAMBDA c : c # " ")

Range(s) == {s[i] : i \in 1..Len(s)}

Min(S) == CHOOSE x \in S : \A y \in S : x <= y

Max(S) == CHOOSE x \in S : \A y \in S : x >= y

-----------------------------------------------------------------------------
(* Timestamps *)

MkDate(y, m, d) == y * 10000 + m * 100 + d

Year(t) == t \div 10000

Month(t) == (t \div 100) % 100

(* format_quarter, lines 100-112 *)
(* format_quarter with July counted in the second quarter *)
format_quarter_skewed(t) ==
    LET year == Year(t)
        month == Month(t)
        quarter == IF month \in {1, 2, 3} THEN 1
                   ELSE IF month \in {4, 5, 6, 7} THEN 2
                   ELSE IF month \in {8, 9} THEN 3
                   ELSE 4
    IN  StrOfNat(year) \o <<"Q">> \o StrOfNat(quarter)

format_quarter(t) ==
    LET year == Year(t)
        month == Month(t)
        quarter == IF month \in {1, 2, 3} THEN 1
                   ELSE IF month \in {4, 5, 6} THEN 2
                   ELSE IF month \in {7, 8, 9} THEN 3
                   ELSE 4
    IN  StrOfNat(year) \o <<"Q">> \o StrOfNat(quarter)

-----------------------------------------------------------------------------
(* Column names and tables *)

Time == <<"T", "i", "m", "e">>

pi_ == <<"p", "i", "_">>

pi_1q == <<"p", "i", "_", "1", "q">>

pi_2q == <<"p", "i", "_", "2", "q">>

pi_12q == <<"p", "i", "_", "1", "2", "q">>

(* df.columns.get_loc / 'Time' in df.columns *)
HasColumn(t, name) == \E j \in 1..Len(t.columns) : t.columns[j] = name

ColumnIndex(t, name) == CHOOSE j \in 1..Len(t.columns) :
                            /\ t.columns[j] = name
                            /\ \A k \in 1..(j - 1) : t.columns[k] # name

(* [col for col in df.columns if col.startswith('pi_')], as column positions *)
HorizonColumns(t) ==
    LET RECURSIVE Pick(_)
        Pick(j) == IF j > Len(t.columns) THEN <<>>
                   ELSE IF StartsWith(t.columns[j], pi_) THEN <<j>> \o Pick(j + 1)
                   ELSE Pick(j + 1)
    IN  Pick(1)

(* col.split('_')[1] *)
SplitField1(s) ==
    LET first == CHOOSE i \in 1..Len(s) : s[i] = "_" /\ \A k \in 1..(i - 1) : s[k] # "_"
        rest == SubSeq(s, first + 1, Len(s))
        stops == {i \in 1..Len(rest) : rest[i] = "_"}
    IN  IF stops = {} THEN rest ELSE SubSeq(rest, 1, Min(stops) - 1)

(* int(col.split('_')[1][:-1]) *)
HorizonLength(col) ==
    LET field == SplitField1(col)
    IN  IntOfStr(SubSeq(field, 1, Len(field) - 1))

(* [int(col.split('_')[1][:-1]) for col in horizons] *)
HorizonValues(t) ==
    LET hs == HorizonColumns(t)
    IN  [k \in 1..Len(hs) |-> HorizonLength(t.columns[hs[k]])]

RowTime(t, row) == row[ColumnIndex(t, Time)]

-----------------------------------------------------------------------------
(* load_sample_data, lines 64-98 *)

SampleFirstYear == 1989

SampleStopYear == 2026

SampleHorizons == 40

Pad2(n) == <<Digits[(n \div 10) + 1], Digits[(n % 10) + 1]>>

(* f"{day:02d}.{month:02d}.{year}" *)
DateStr(day, month, year) == Pad2(day) \o <<".">> \o Pad2(month) \o <<".">> \o StrOfNat(year)

(* pd.to_datetime(..., format='%d.%m.%Y') *)
ParseDMY(s) == MkDate(IntOfStr(SubSeq(s, 7, Len(s))), IntOfStr(SubSeq(s, 4, 5)),
                      IntOfStr(SubSeq(s, 1, 2)))

SampleDay(quarter) ==
    LET day == IF quarter = 12 THEN 31 ELSE 30
    IN  IF quarter = 6 THEN 30
        ELSE IF quarter = 3 THEN 31
        ELSE IF quarter = 9 THEN 30
        ELSE day

(* The two nested loops, lines 68-82: every (year, quarter) in loop order, *)
(* without those the continue skips.                                       *)
SampleQuarters ==
    LET years == SampleStopYear - SampleFirstYear
        all == [k \in 1..(4 * years) |->
                   [year |-> SampleFirstYear + ((k - 1) \div 4),
                    quarter |-> <<3, 6, 9, 12>>[((k - 1) % 4) + 1]]]
        kept == SelectSeq(all, LAMBDA it : ~(it.year = SampleFirstYear /\ it.quarter < 12))
    IN  [k \in 1..Len(kept) |->
            DateStr(SampleDay(kept[k].quarter), kept[k].quarter, kept[k].year)]

(* base_trend + horizon_adjustment + noise, floored at 0.5, in thousandths.  *)
(* The sine trend and the seeded normal noise are fixed numbers that are not *)
(* computed here; the level 2.0 and the adjustment (q - 1) * 0.01 are.       *)
SampleValue(q, i) == Max({2000 + (q - 1) * 10, 500})

SampleColumn(q) == pi_ \o StrOfNat(q) \o <<"q">>

load_sample_data ==
    [columns |-> <<Time>> \o [q \in 1..SampleHorizons |-> SampleColumn(q)],
     rows |-> [i \in 1..Len(SampleQuarters) |->
                  <<ParseDMY(SampleQuarters[i])>> \o
                  [q \in 1..SampleHorizons |-> SampleValue(q, i)]]]

-----------------------------------------------------------------------------
(* What load_data can find at data/<country_code>/FittedTermStructure.xlsx *)

MaxRows == 2

COUNTRIES == {"de", "ez"}

NotRead == [kind |-> "not read"]

Absent == [kind |-> "absent"]

Corrupt == [kind |-> "corrupt"]

Str(chars) == [type |-> "str", v |-> chars]

(* A column label that is a number, not a str; v holds its digits. *)
IntLabel(n) == [type |-> "int", v |-> StrOfNat(n)]

(* Header rows of a spreadsheet: column labels as read, before cleaning. *)
Headers ==
    { << Str(<<"T", "i", "m", "e", " ">>), Str(pi_1q) >>,
      << Str(<<"D", "a", "t", "u", "m">>), Str(<<"p", "i", "_", " ", "1", "q">>) >>,
      << Str(pi_2q), Str(Time) >> }

(* Header rows no table can be made of, whatever the rows below them. *)
BrokenHeaders ==
    { << Str(pi_1q), Str(pi_2q) >>,
      << IntLabel(2020), Str(pi_1q) >>,
      << Str(Time), Str(<<" ", "T", "i", "m", "e">>) >>,
      << >> }

SourceDates == {MkDate(1999, 3, 31), MkDate(1999, 6, 30)}

(* A time cell is a date or a text that is no date. *)
TimeCells == SourceDates \cup {NotADate}

(* A raw numeric cell, in ten-thousandths: row i, column j as read. *)
RawNumber(i, j) == 12344 + 1112 * i + 10000 * j

IsValueLabel(lab) == lab.type = "str" /\ StartsWith(RemoveSpaces(lab.v), pi_)

Sheet(header, times) ==
    [kind |-> "sheet",
     columns |-> header,
     dtypes |-> [j \in 1..Len(header) |->
                    IF IsValueLabel(header[j]) THEN "float64"
                    ELSE IF \A i \in 1..Len(times) : times[i] # NotADate
                    THEN "datetime64" ELSE "object"],
     rows |-> [i \in 1..Len(times) |->
                  [j \in 1..Len(header) |->
                      IF IsValueLabel(header[j]) THEN RawNumber(i, j)
                      ELSE times[i]]]]

TimeSeqs == UNION {[1..n -> TimeCells] : n \in 0..MaxRows}

Sources ==
    {Absent, Corrupt}
        \cup {Sheet(h, ts) : h \in Headers, ts \in TimeSeqs}
        \cup {Sheet(h, <<t>>) : h \in BrokenHeaders, t \in SourceDates}

-----------------------------------------------------------------------------
(* load_data, lines 26-62 *)

(* numpy round to 3 decimals (half to even) of a value in ten-thousandths *)
Round3(x) ==
    LET q == x \div 10
        r == x % 10
    IN  IF r < 5 THEN q
        ELSE IF r > 5 THEN q + 1
        ELSE IF q % 2 = 0 THEN q ELSE q + 1

(* df.select_dtypes(include=[np.number]).columns *)
IsNumeric(dtype) == dtype = "float64"

(* pd.to_datetime of one cell: a timestamp stays, text that is no date raises *)
ParsesAsDate(cell) == cell # NotADate

(* Every order sort_values('Time') may leave the rows in: ascending by Time, *)
(* rows of equal Time in any order (the default sort kind is not stable).    *)
RowOrders(n) == {p \in [1..n -> 1..n] : \A i, j \in 1..n : i # j => p[i] # p[j]}

(* The rows left as read, without sort_values *)
SortedOrders_unsorted(rows, tcol) == {rows}

SortedOrders(rows, tcol) ==
    {[i \in 1..Len(rows) |-> rows[p[i]]] : p \in
        {q \in RowOrders(Len(rows)) :
            \A i \in 1..(Len(rows) - 1) : rows[q[i]][tcol] <= rows[q[i + 1]][tcol]}}

Raised(exc) == [exc |-> exc, df |-> NoTable]

Returned(t) == [exc |-> None, df |-> t]

(* The try block, lines 29-53: the set of ways it can end. *)
load_data_try(src) ==
    IF src.kind = "absent" THEN {Raised("FileNotFoundError")}
    ELSE IF src.kind = "corrupt" THEN {Raised("Exception")}
    ELSE IF \E j \in 1..Len(src.columns) : src.columns[j].type # "str"
    THEN {Raised("Exception")}                                   \* col.replace on a non-str label
    ELSE
    LET cleaned == [j \in 1..Len(src.columns) |-> RemoveSpaces(src.columns[j].v)]
        rounded == [i \in 1..Len(src.rows) |->
                       [j \in 1..Len(cleaned) |->
                           IF IsNumeric(src.dtypes[j]) /\ src.rows[i][j] # NaN
                           THEN Round3(src.rows[i][j])
                           ELSE src.rows[i][j]]]
        hasTime == \E j \in 1..Len(cleaned) : cleaned[j] = Time
        timeCount == Cardinality({j \in 1..Len(cleaned) : cleaned[j] = Time})
    IN  IF hasTime
        THEN IF timeCount > 1 THEN {Raised("Exception")}         \* to_datetime of a frame
             ELSE LET t == [columns |-> cleaned, rows |-> rounded]
                      tcol == ColumnIndex(t, Time)
                  IN  IF \E i \in 1..Len(rounded) : ~ParsesAsDate(rounded[i][tcol])
                      THEN {Raised("Exception")}
                      ELSE {Returned([columns |-> cleaned, rows |-> r]) :
                                r \in SortedOrders(rounded, tcol)}
        ELSE IF Len(cleaned) = 0 THEN {Raised("Exception")}      \* df.columns[0]
        ELSE IF cleaned[1] \notin {pi_1q, pi_2q}
        THEN LET renamed == [cleaned EXCEPT ![1] = Time]
             IN  IF \E i \in 1..Len(rounded) : ~ParsesAsDate(rounded[i][1])
                 THEN {Raised("Exception")}
                 ELSE {Returned([columns |-> renamed, rows |-> r]) :
                           r \in SortedOrders(rounded, 1)}
        ELSE {Raised("Exception")}                               \* sort_values('Time'): KeyError

ErrorNotFound == "Datei nicht gefunden"

ErrorLoading == "Fehler beim Laden der Daten"

InfoSample == "Verwende Beispiel-Daten"

(* The body with a second handler that lets the exception through *)
load_data_body_reraise(src) ==
    {IF res.exc = None
     THEN [df |-> res.df, messages |-> <<>>, raised |-> FALSE]
     ELSE IF res.exc = "FileNotFoundError"
     THEN [df |-> load_sample_data, messages |-> <<ErrorNotFound, InfoSample>>,
           raised |-> FALSE]
     ELSE [df |-> NoTable, messages |-> <<>>, raised |-> TRUE] :
     res \in load_data_try(src)}

(* The function body, lines 29-62: [df, messages, raised] for each way it can end. *)
load_data_body(src) ==
    {IF res.exc = None
     THEN [df |-> res.df, messages |-> <<>>, raised |-> FALSE]
     ELSE IF res.exc = "FileNotFoundError"
     THEN [df |-> load_sample_data, messages |-> <<ErrorNotFound, InfoSample>>,
           raised |-> FALSE]
     ELSE [df |-> load_sample_data, messages |-> <<ErrorLoading, InfoSample>>,
           raised |-> FALSE] :
     res \in load_data_try(src)}

(* load_data without the @st.cache_data decorator *)
CacheHit_never(c) == FALSE

(* @st.cache_data: the function memoised on its argument *)
CacheHit(c) == Len(cache[c]) > 0

MaxReads == 3

LoadData(c) ==
    /\ country_code' = c
    /\ op' = "load_data"
    /\ IF CacheHit(c)
       THEN /\ df' = cache[c][1].df
            /\ messages' = cache[c][1].messages
            /\ outcome' = "returned"
            /\ source' = NotRead
            /\ UNCHANGED <<cache, reads>>
       ELSE /\ reads[c] < MaxReads
            /\ \E src \in Sources : \E res \in load_data_body(src) :
                 /\ source' = src
                 /\ reads' = [reads EXCEPT ![c] = @ + 1]
                 /\ messages' = res.messages
                 /\ IF res.raised
                    THEN /\ outcome' = "raised"
                         /\ df' = NoTable
                         /\ UNCHANGED cache
                    ELSE /\ outcome' = "returned"
                         /\ df' = res.df
                         /\ cache' = [cache EXCEPT ![c] =
                                         <<[df |-> res.df, messages |-> res.messages]>>]
    /\ UNCHANGED <<chartVars, quarterVars>>

Init ==
    /\ cache = [c \in COUNTRIES |-> <<>>]
    /\ reads = [c \in COUNTRIES |-> 0]
    /\ country_code = None
    /\ source = NotRead
    /\ outcome = None
    /\ messages = <<>>
    /\ df = NoTable
    /\ op = None
    /\ curves_data = <<>>
    /\ selected_quarter_labels = <<>>
    /\ selected_dates = <<>>
    /\ fig = NoFigure
    /\ error = None
    /\ y_range = <<0, 0>>
    /\ filtered_df = NoTable
    /\ date = 0
    /\ label = <<>>

Next == \E c \in COUNTRIES : LoadData(c)

Spec == Init /\ [][Next]_vars

-----------------------------------------------------------------------------
(* get_global_y_range, lines 114-126 *)

(* df[col].tolist() without dropna *)
DropNa_keep(t, j) == [i \in 1..Len(t.rows) |-> t.rows[i][j]]

(* df[col].dropna().tolist() *)
DropNa(t, j) ==
    SelectSeq([i \in 1..Len(t.rows) |-> t.rows[i][j]], LAMBDA v : v # NaN)

get_global_y_range(t) ==
    LET horizons_cols == HorizonColumns(t)
        RECURSIVE Extend(_)
        Extend(k) == IF k > Len(horizons_cols) THEN <<>>
                     ELSE DropNa(t, horizons_cols[k]) \o Extend(k + 1)
        all_values == Extend(1)
    IN  IF Len(all_values) > 0
        THEN <<Min(Range(all_values)) - 200, Max(Range(all_values)) + 200>>
        ELSE <<0, 5000>>

-----------------------------------------------------------------------------
(* prepare_curve_data, lines 180-195 *)

(* [row[col] for col in horizons] *)
RowValues(t, row) ==
    LET horizons == HorizonColumns(t)
    IN  [k \in 1..Len(horizons) |-> row[horizons[k]]]

(* prepare_curve_data over df.dropna() *)
prepare_curve_data_dropna(t) ==
    LET horizon_values == HorizonValues(t)
        complete == SelectSeq(t.rows, LAMBDA row : NaN \notin Range(RowValues(t, row)))
    IN  [idx \in 1..Len(complete) |->
            [date |-> RowTime(t, complete[idx]),
             quarter_label |-> format_quarter(RowTime(t, complete[idx])),
             horizons |-> horizon_values,
             values |-> RowValues(t, complete[idx])]]

prepare_curve_data(t) ==
    LET horizon_values == HorizonValues(t)
    IN  [idx \in 1..Len(t.rows) |->
            [date |-> RowTime(t, t.rows[idx]),
             quarter_label |-> format_quarter(RowTime(t, t.rows[idx])),
             horizons |-> horizon_values,
             values |-> RowValues(t, t.rows[idx])]]

-----------------------------------------------------------------------------
(* create_comparison_chart, lines 197-232 *)

(* len(px.colors.qualitative.Set1) *)
PaletteSize == 9

(* df[df['Time'] == date] *)
RowsAt(t, d) == SelectSeq(t.rows, LAMBDA row : RowTime(t, row) = d)

(* A trace built from .iloc[-1] of the matching rows *)
ComparisonTrace_lastrow(t, i, d) ==
    [x |-> HorizonValues(t),
     y |-> RowValues(t, RowsAt(t, d)[Len(RowsAt(t, d))]),
     name |-> format_quarter(d),
     color |-> (i - 1) % PaletteSize]

ComparisonTrace(t, i, d) ==
    [x |-> HorizonValues(t),
     y |-> RowValues(t, RowsAt(t, d)[1]),
     name |-> format_quarter(d),
     color |-> (i - 1) % PaletteSize]

(* create_comparison_chart that passes over dates without a row *)
create_comparison_chart_skipmissing(t, dates, use_fixed_scale) ==
    LET found == SelectSeq(dates, LAMBDA d : Len(RowsAt(t, d)) > 0)
    IN  [error |-> None,
         fig |-> Figure([i \in 1..Len(found) |-> ComparisonTrace(t, i, found[i])],
                        IF use_fixed_scale THEN get_global_y_range(t) ELSE <<>>)]

(* [error, fig]: the exception that ends the call, or the figure returned *)
create_comparison_chart(t, dates, use_fixed_scale) ==
    IF \E i \in 1..Len(dates) : Len(RowsAt(t, dates[i])) = 0
    THEN [error |-> "IndexError", fig |-> NoFigure]              \* .iloc[0] of no row
    ELSE [error |-> None,
          fig |-> Figure([i \in 1..Len(dates) |-> ComparisonTrace(t, i, dates[i])],
                         IF use_fixed_scale THEN get_global_y_range(t) ELSE <<>>)]

-----------------------------------------------------------------------------
(* Tables that load_data can return: a Time column, pi_ columns in any      *)
(* order, rows ascending by Time, values possibly missing.                  *)

MaxSelected == 2

HorizonNames == {pi_2q, pi_12q}

TableDates == {MkDate(1999, 1, 31), MkDate(1999, 3, 31), MkDate(2000, 12, 31)}

CurveDates == {MkDate(1999, 3, 31), MkDate(2000, 12, 31)}

CurveValues == {1500, 2500, NaN}

ChartValues == {1500, 2500}

IsInjective(f) == \A i, j \in DOMAIN f : i # j => f[i] # f[j]

HorizonLayouts ==
    {hs \in UNION {[1..n -> HorizonNames] : n \in 0..Cardinality(HorizonNames)} :
        IsInjective(hs)}

ColumnOrders == {<<Time>> \o hs : hs \in HorizonLayouts}
                    \cup {hs \o <<Time>> : hs \in HorizonLayouts}

RowsOf(cols, dates, values) ==
    {r \in [1..Len(cols) -> dates \cup values] :
        \A j \in 1..Len(cols) : (cols[j] = Time) <=> (r[j] \in dates)}

IsAscending(cols, rs) ==
    LET tcol == CHOOSE j \in 1..Len(cols) : cols[j] = Time
    IN  \A i \in 1..(Len(rs) - 1) : rs[i][tcol] <= rs[i + 1][tcol]

TablesOver(dates, values) ==
    UNION {UNION {{[columns |-> cols, rows |-> rs] :
                      rs \in {q \in [1..n -> RowsOf(cols, dates, values)] :
                                 IsAscending(cols, q)}} :
                  n \in 0..MaxRows} :
           cols \in ColumnOrders}

Idle ==
    /\ cache = [c \in COUNTRIES |-> <<>>]
    /\ reads = [c \in COUNTRIES |-> 0]
    /\ country_code = None
    /\ source = NotRead
    /\ outcome = None
    /\ messages = <<>>
    /\ op = None
    /\ curves_data = <<>>
    /\ selected_quarter_labels = <<>>
    /\ selected_dates = <<>>
    /\ fig = NoFigure
    /\ error = None
    /\ y_range = <<0, 0>>
    /\ filtered_df = NoTable
    /\ date = 0
    /\ label = <<>>

-----------------------------------------------------------------------------
(* Curve extraction and global value range applied to a loaded table *)

PrepareCurveData ==
    /\ op' = "prepare_curve_data"
    /\ curves_data' = prepare_curve_data(df)
    /\ UNCHANGED <<loadVars, df, selected_quarter_labels, selected_dates, fig, error,
                   y_range, filtered_df, quarterVars>>

GetGlobalYRange ==
    /\ op' = "get_global_y_range"
    /\ y_range' = get_global_y_range(df)
    /\ UNCHANGED <<loadVars, df, curves_data, selected_quarter_labels, selected_dates,
                   fig, error, filtered_df, quarterVars>>

InitCurve == Idle /\ df \in TablesOver(CurveDates, CurveValues)

NextCurve == PrepareCurveData \/ GetGlobalYRange

SpecCurve == InitCurve /\ [][NextCurve]_vars

-----------------------------------------------------------------------------
(* The comparison chart built for a caller-supplied list of dates *)

DateLists == UNION {[1..n -> TableDates] : n \in 0..MaxSelected}

CreateComparisonChart(dates, use_fixed_scale) ==
    LET res == create_comparison_chart(df, dates, use_fixed_scale)
    IN  /\ op' = "create_comparison_chart"
        /\ selected_dates' = dates
        /\ error' = res.error
        /\ fig' = res.fig
        /\ UNCHANGED <<loadVars, df, curves_data, selected_quarter_labels, y_range,
                       filtered_df, quarterVars>>

InitCompare == Idle /\ df \in TablesOver(TableDates, ChartValues)

(* The function keeps nothing between calls: one call per table and list. *)
NextCompare ==
    /\ op = None
    /\ \E dates \in DateLists, use_fixed_scale \in BOOLEAN :
          CreateComparisonChart(dates, use_fixed_scale)

SpecCompare == InitCompare /\ [][NextCompare]_vars

-----------------------------------------------------------------------------
(* format_quarter applied to any date *)

FirstYear == 1998

LastYear == 2001

Days == {1, 15, 28}

FormatQuarter(t) ==
    /\ op' = "format_quarter"
    /\ date' = t
    /\ label' = format_quarter(t)
    /\ UNCHANGED <<loadVars, df, chartVars>>

InitQuarter == Idle /\ df = NoTable

QuarterDates ==
    {MkDate(y, m, d) : y \in FirstYear..LastYear, m \in 1..12, d \in Days}
        \cup {MkDate(1999, 3, 31), MkDate(2020, 12, 31)}

NextQuarter == \E t \in QuarterDates : FormatQuarter(t)

SpecQuarter == InitQuarter /\ [][NextQuarter]_vars

-----------------------------------------------------------------------------
(* main, lines 295-352: the loaded table, the curve records and the         *)
(* comparison tab.  The overview and evolution tabs only render.            *)

(* [(row['Time'], format_quarter(row['Time'])) for _, row in df.iterrows()] *)
QuarterOptions(t) ==
    [i \in 1..Len(t.rows) |-> <<RowTime(t, t.rows[i]), format_quarter(RowTime(t, t.rows[i]))>>]

QuarterLabels(t) == [i \in 1..Len(t.rows) |-> QuarterOptions(t)[i][2]]

(* quarter_labels[-3:] if len(quarter_labels) >= 3 else quarter_labels *)
DefaultSelection(t) ==
    LET quarter_labels == QuarterLabels(t)
    IN  IF Len(quarter_labels) >= 3
        THEN SubSeq(quarter_labels, Len(quarter_labels) - 2, Len(quarter_labels))
        ELSE quarter_labels

(* The inner loop without its break *)
ResolveLabel_nobreak(t, lab) ==
    LET quarter_options == QuarterOptions(t)
    IN  [k \in 1..Len(SelectSeq(quarter_options, LAMBDA o : o[2] = lab)) |->
            SelectSeq(quarter_options, LAMBDA o : o[2] = lab)[k][1]]

(* for date, qlabel in quarter_options: if qlabel == label: append; break *)
ResolveLabel(t, lab) ==
    LET quarter_options == QuarterOptions(t)
        hits == {i \in 1..Len(quarter_options) : quarter_options[i][2] = lab}
    IN  IF hits = {} THEN <<>> ELSE <<quarter_options[Min(hits)][1]>>

ResolveLabels(t, labels) ==
    LET RECURSIVE Go(_)
        Go(k) == IF k > Len(labels) THEN <<>>
                 ELSE ResolveLabel(t, labels[k]) \o Go(k + 1)
    IN  Go(1)

(* df[df['Time'].isin(selected_dates)], lines 271-279 *)
download_selected_data_as_csv(t, dates) ==
    [columns |-> t.columns,
     rows |-> SelectSeq(t.rows, LAMBDA row : RowTime(t, row) \in Range(dates))]

(* What st.multiselect can return: the default, or any choice among the options *)
Selections(t) ==
    {DefaultSelection(t)} \cup
    UNION {[1..n -> Range(QuarterLabels(t))] : n \in 0..MaxSelected}

Main(labels, use_fixed_y_axis) ==
    /\ op' = "main"
    /\ curves_data' = prepare_curve_data(df)
    /\ selected_quarter_labels' = labels
    /\ IF Len(labels) > 0
       THEN LET dates == ResolveLabels(df, labels)
                res == create_comparison_chart(df, dates, use_fixed_y_axis)
            IN  /\ selected_dates' = dates
                /\ error' = res.error
                /\ fig' = res.fig
                /\ filtered_df' = IF res.error = None
                                  THEN download_selected_data_as_csv(df, dates)
                                  ELSE NoTable
       ELSE /\ selected_dates' = <<>>
            /\ error' = None
            /\ fig' = NoFigure
            /\ filtered_df' = NoTable
    /\ UNCHANGED <<loadVars, df, y_range, quarterVars>>

InitMain == Idle /\ df \in TablesOver(TableDates, ChartValues)

(* Every interaction reruns the script from the top with the widget values *)
(* as its only input: one run per table and selection.                     *)
NextMain ==
    /\ op = None
    /\ \E labels \in Selections(df), use_fixed_y_axis \in BOOLEAN :
          Main(labels, use_fixed_y_axis)

SpecMain == InitMain /\ [][NextMain]_vars

-----------------------------------------------------------------------------
(* Properties *)

Times(t) == {RowTime(t, t.rows[i]) : i \in 1..Len(t.rows)}

IsAscendingByTime(t) ==
    \A i \in 1..(Len(t.rows) - 1) : RowTime(t, t.rows[i]) <= RowTime(t, t.rows[i + 1])

IsStrictlyAscendingByTime(t) ==
    \A i \in 1..(Len(t.rows) - 1) : RowTime(t, t.rows[i]) < RowTime(t, t.rows[i + 1])

Loaded == op = "load_data" /\ outcome = "returned"

FellBack == Loaded /\ Len(messages) > 0

(* C1, as stated: the table load_data returns is sorted strictly ascending  *)
(* by Time, no two rows carrying the same date.                             *)
C1_StrictlyAscending == Loaded => IsStrictlyAscendingByTime(df)

(* C1, amended: the table load_data returns is sorted ascending by Time;    *)
(* rows of the source that carry the same date are all kept, and on the     *)
(* fallback path the dates are strictly ascending.                          *)
C1_Ascending ==
    Loaded => /\ HasColumn(df, Time)
              /\ IsAscendingByTime(df)
              /\ (FellBack => IsStrictlyAscendingByTime(df))
              /\ (~FellBack /\ source.kind = "sheet" => Len(df.rows) = Len(source.rows))

C1_Witness ==
    /\ Loaded
    /\ ~FellBack
    /\ source.kind = "sheet"
    /\ Len(source.rows) = 2
    /\ \E j \in 1..Len(source.columns) : source.rows[1][j] > source.rows[2][j]
                                          /\ source.dtypes[j] = "datetime64"
    /\ RowTime(df, df.rows[1]) < RowTime(df, df.rows[2])

SourceFails(src) == \E res \in load_data_try(src) : res.exc # None

(* C2: load_data never raises; when reading, cleaning, time handling or     *)
(* sorting fails it returns the table of load_sample_data with a diagnostic *)
C2_NeverFails ==
    op = "load_data" =>
        /\ outcome = "returned"
        /\ (source # NotRead /\ SourceFails(source) =>
               /\ df = load_sample_data
               /\ Len(messages) = 2
               /\ messages[1] \in {ErrorNotFound, ErrorLoading}
               /\ (messages[1] = ErrorNotFound <=> source.kind = "absent"))

C2_Witness ==
    /\ Loaded
    /\ source.kind = "sheet"
    /\ Len(source.rows) > 0
    /\ df = load_sample_data
    /\ messages = <<ErrorLoading, InfoSample>>

(* C3: per country the source is read at most once; once a country has been *)
(* loaded, every later request for it returns that same table without a     *)
(* read, and no request (for any country) changes or evicts its entry.      *)
C3_Memoized ==
    /\ [](\A c \in COUNTRIES : reads[c] <= 1 /\ (reads[c] = 1 <=> Len(cache[c]) = 1))
    /\ [][\A c \in COUNTRIES :
            Len(cache[c]) = 1 => /\ cache'[c] = cache[c]
                                 /\ reads'[c] = reads[c]
                                 /\ (country_code' = c => df' = cache[c][1].df)]_vars

C3_Witness ==
    /\ Loaded
    /\ source = NotRead
    /\ \A c \in COUNTRIES : reads[c] = 1
    /\ \E c \in COUNTRIES : c # country_code /\ cache[c][1].df # df

Prepared == op = "prepare_curve_data"

IsSortedAscending(seq) == \A i \in 1..(Len(seq) - 1) : seq[i] < seq[i + 1]

HorizonName(h) == pi_ \o StrOfNat(h) \o <<"q">>

HorizonCount(t) == Cardinality({j \in 1..Len(t.columns) : StartsWith(t.columns[j], pi_)})

(* values[i] is row k's cell of the column named after horizons[i] *)
IsAligned(t, k, rec) ==
    /\ Len(rec.values) = Len(rec.horizons)
    /\ Len(rec.horizons) = HorizonCount(t)
    /\ \A i \in 1..Len(rec.horizons) :
          /\ HasColumn(t, HorizonName(rec.horizons[i]))
          /\ rec.values[i] = t.rows[k][ColumnIndex(t, HorizonName(rec.horizons[i]))]

(* C4: the horizons of every Curve Record are sorted ascending, and         *)
(* values[i] is the row's value of the column of horizon horizons[i].       *)
C4_SortedHorizons ==
    Prepared => \A k \in 1..Len(curves_data) :
                    /\ IsSortedAscending(curves_data[k].horizons)
                    /\ IsAligned(df, k, curves_data[k])

ExpectedLabel(t) == StrOfNat(Year(t)) \o <<"Q">> \o StrOfNat(((Month(t) - 1) \div 3) + 1)

(* C5: one Curve Record per row, in table order, with the row's date and    *)
(* quarter label; a missing value stays the missing marker at its position  *)
(* and the other values are the row's.                                      *)
C5_OneRecordPerRow ==
    Prepared =>
        /\ Len(curves_data) = Len(df.rows)
        /\ \A k \in 1..Len(curves_data) :
              /\ curves_data[k].date = RowTime(df, df.rows[k])
              /\ curves_data[k].quarter_label = ExpectedLabel(RowTime(df, df.rows[k]))
              /\ Len(curves_data[k].values) = HorizonCount(df)
              /\ \A i \in 1..Len(curves_data[k].values) :
                    curves_data[k].values[i] =
                        df.rows[k][ColumnIndex(df, HorizonName(curves_data[k].horizons[i]))]

C5_Witness ==
    /\ Prepared
    /\ Len(df.rows) = 2
    /\ curves_data[1].values = <<NaN, 2500>>
    /\ curves_data[2].values = <<1500, NaN>>
    /\ curves_data[1].date < curves_data[2].date

Compared == op = "create_comparison_chart"

FirstRowAt(t, d) ==
    t.rows[Min({i \in 1..Len(t.rows) : RowTime(t, t.rows[i]) = d})]

IsSeriesOf(t, trace, d) ==
    /\ Len(trace.x) = HorizonCount(t)
    /\ Len(trace.y) = HorizonCount(t)
    /\ trace.name = ExpectedLabel(d)
    /\ \A i \in 1..Len(trace.x) :
          /\ HasColumn(t, HorizonName(trace.x[i]))
          /\ trace.y[i] = FirstRowAt(t, d)[ColumnIndex(t, HorizonName(trace.x[i]))]

(* C6: for dates all present in the table the chart has one series per date *)
(* in the order given, each with one point per horizon column, x the        *)
(* horizon lengths and y the values of the date's row; an empty selection   *)
(* gives a chart without series and no error.                               *)
C6_OneSeriesPerDate ==
    (Compared /\ Range(selected_dates) \subseteq Times(df)) =>
        /\ error = None
        /\ fig.returned
        /\ Len(fig.data) = Len(selected_dates)
        /\ \A i \in 1..Len(selected_dates) : IsSeriesOf(df, fig.data[i], selected_dates[i])

C6_Witness ==
    /\ Compared
    /\ Len(selected_dates) = 2
    /\ selected_dates[1] > selected_dates[2]
    /\ Range(selected_dates) \subseteq Times(df)
    /\ HorizonCount(df) = 2
    /\ fig.data[1].y # fig.data[2].y

(* C7: a selection holding a date that is the Time of no row ends the call  *)
(* in an error and no chart is returned, wherever the date stands.          *)
C7_MissingDateErrors ==
    (Compared /\ ~(Range(selected_dates) \subseteq Times(df))) =>
        /\ error = "IndexError"
        /\ fig = NoFigure

C7_Witness ==
    /\ Compared
    /\ Len(selected_dates) = 2
    /\ selected_dates[1] \in Times(df)
    /\ selected_dates[2] \notin Times(df)
    /\ error = "IndexError"

Ranged == op = "get_global_y_range"

HorizonCells(t) ==
    {t.rows[i][j] : i \in 1..Len(t.rows),
                    j \in {k \in 1..Len(t.columns) : StartsWith(t.columns[k], pi_)}} \ {NaN}

(* C8: the range is [min - 0.2, max + 0.2] over all non-missing values of   *)
(* the pi_ columns: both bounds lie exactly 0.2 outside the values.         *)
C8_GlobalRange ==
    (Ranged /\ HorizonCells(df) # {}) =>
        /\ y_range[1] + 200 \in HorizonCells(df)
        /\ y_range[2] - 200 \in HorizonCells(df)
        /\ \A v \in HorizonCells(df) : y_range[1] + 200 <= v /\ v <= y_range[2] - 200

C8_Witness ==
    /\ Ranged
    /\ NaN \in {df.rows[i][j] : i \in 1..Len(df.rows), j \in 1..Len(df.columns)}
    /\ y_range = <<1300, 2700>>
    /\ HorizonCount(df) = 2

(* C9: format_quarter returns <year>Q<n>, n = 1 for months 1-3, 2 for 4-6,  *)
(* 3 for 7-9, 4 for 10-12, whatever the day and whatever was asked before.  *)
C9_QuarterLabel ==
    op = "format_quarter" =>
        /\ label = ExpectedLabel(date)
        /\ (date = MkDate(1999, 3, 31) => label = <<"1", "9", "9", "9", "Q", "1">>)
        /\ (date = MkDate(2020, 12, 31) => label = <<"2", "0", "2", "0", "Q", "4">>)

C9_Witness ==
    /\ op = "format_quarter"
    /\ date = MkDate(2020, 12, 31)
    /\ label = <<"2", "0", "2", "0", "Q", "4">>

FirstRowLabelled(t, lab) ==
    Min({i \in 1..Len(t.rows) : ExpectedLabel(RowTime(t, t.rows[i])) = lab})

(* C10: in the comparison tab every selected label resolves to the date of  *)
(* the first row carrying it, so the dates handed to the chart builder      *)
(* match the labels in length and order and are all in the table, the chart *)
(* builder does not fail and plots that first row; with nothing selected    *)
(* neither the chart builder nor the filtered export runs.                  *)
C10_ComparisonTab ==
    op = "main" =>
        IF Len(selected_quarter_labels) > 0
        THEN /\ Len(selected_dates) = Len(selected_quarter_labels)
             /\ error = None
             /\ fig.returned
             /\ Len(fig.data) = Len(selected_quarter_labels)
             /\ \A i \in 1..Len(selected_dates) :
                   LET first == df.rows[FirstRowLabelled(df, selected_quarter_labels[i])]
                   IN  /\ selected_dates[i] \in Times(df)
                       /\ selected_dates[i] = RowTime(df, first)
                       /\ fig.data[i].y = RowValues(df, first)
             /\ Times(filtered_df) = Range(selected_dates)
        ELSE /\ fig = NoFigure
             /\ filtered_df = NoTable
             /\ error = None

C10_Witness ==
    /\ op = "main"
    /\ Len(df.rows) = 2
    /\ RowTime(df, df.rows[1]) # RowTime(df, df.rows[2])
    /\ ExpectedLabel(RowTime(df, df.rows[1])) = ExpectedLabel(RowTime(df, df.rows[2]))
    /\ selected_quarter_labels = <<ExpectedLabel(RowTime(df, df.rows[2]))>>
    /\ selected_dates = <<RowTime(df, df.rows[1])>>

====
